---------------------------- MODULE Spec2Model ----------------------------
(***************************************************************************)
(* Model of the Mercado Livre price optimiser.                             *)
(*                                                                         *)
(*   src/src/mercado_livre_price_optimizer.py   (the "new" script)         *)
(*   src/src/MercadoLivrePriceOptimizer.py      (the "legacy" script)      *)
(*                                                                         *)
(* Text is a sequence of characters; a character is a one-character        *)
(* string, or "Uxxxx" for a code point outside ASCII.  A Python float is   *)
(* an IEEE-754 binary64 value [s, m, e] = (-1)^s * m * 2^e whose           *)
(* significand m is an arbitrary-precision natural number (a little-endian *)
(* sequence of limbs), so that products and roundings are computed on the  *)
(* exact binary values, as the interpreter computes them.                  *)
(***************************************************************************)
EXTENDS Integers, Sequences, FiniteSets, TLC

(***************************************************************************)
(* Arbitrary-precision naturals: little-endian limbs in base 2^15.         *)
(***************************************************************************)
Base == 2^15

TailOrEmpty(a) == IF a = <<>> THEN <<>> ELSE Tail(a)

HeadOrZero(a) == IF a = <<>> THEN 0 ELSE Head(a)

RECURSIVE BNorm(_)
BNorm(a) ==
  IF a = <<>> THEN <<>>
  ELSE IF a[Len(a)] = 0 THEN BNorm(SubSeq(a, 1, Len(a) - 1))
  ELSE a

RECURSIVE BFromInt(_)
BFromInt(n) == IF n = 0 THEN <<>> ELSE <<n % Base>> \o BFromInt(n \div Base)

RECURSIVE BToInt(_)
BToInt(a) == IF a = <<>> THEN 0 ELSE Head(a) + Base * BToInt(Tail(a))

RECURSIVE BAddC(_, _, _)
BAddC(a, b, c) ==
  IF a = <<>> /\ b = <<>> THEN (IF c = 0 THEN <<>> ELSE <<c>>)
  ELSE LET s == HeadOrZero(a) + HeadOrZero(b) + c
       IN  <<s % Base>> \o BAddC(TailOrEmpty(a), TailOrEmpty(b), s \div Base)

BAdd(a, b) == BNorm(BAddC(a, b, 0))

\* a - b for a >= b
RECURSIVE BSubC(_, _, _)
BSubC(a, b, c) ==
  IF a = <<>> THEN <<>>
  ELSE LET d == Head(a) - HeadOrZero(b) - c
       IN  IF d < 0 THEN <<d + Base>> \o BSubC(Tail(a), TailOrEmpty(b), 1)
           ELSE <<d>> \o BSubC(Tail(a), TailOrEmpty(b), 0)

BSub(a, b) == BNorm(BSubC(a, b, 0))

\* -1, 0, 1 as a < b, a = b, a > b (both normalised)
RECURSIVE BCmpFrom(_, _, _)
BCmpFrom(a, b, i) ==
  IF i = 0 THEN 0
  ELSE IF a[i] < b[i] THEN -1
  ELSE IF a[i] > b[i] THEN 1
  ELSE BCmpFrom(a, b, i - 1)

BCmp(a, b) ==
  IF Len(a) < Len(b) THEN -1
  ELSE IF Len(a) > Len(b) THEN 1
  ELSE BCmpFrom(a, b, Len(a))

RECURSIVE BMulSmallC(_, _, _)
BMulSmallC(a, k, c) ==
  IF a = <<>> THEN (IF c = 0 THEN <<>> ELSE <<c>>)
  ELSE LET p == Head(a) * k + c
       IN  <<p % Base>> \o BMulSmallC(Tail(a), k, p \div Base)

\* a * k for 0 <= k < Base
BMulSmall(a, k) == BNorm(BMulSmallC(a, k, 0))

RECURSIVE BMul(_, _)
BMul(a, b) ==
  IF b = <<>> \/ a = <<>> THEN <<>>
  ELSE BAdd(BMulSmall(a, Head(b)), BNorm(<<0>> \o BMul(a, Tail(b))))

\* quotient and remainder of a by k, 0 < k < Base
DivStep(hi, limb, k) ==
  [q |-> <<(hi.r * Base + limb) \div k>> \o hi.q, r |-> (hi.r * Base + limb) % k]

RECURSIVE BDivRem(_, _)
BDivRem(a, k) ==
  IF a = <<>> THEN [q |-> <<>>, r |-> 0]
  ELSE DivStep(BDivRem(Tail(a), k), Head(a), k)

NormQuotient(d) == [q |-> BNorm(d.q), r |-> d.r]

BDivSmall(a, k) == NormQuotient(BDivRem(a, k))

RECURSIVE IntBitLen(_)
IntBitLen(n) == IF n = 0 THEN 0 ELSE 1 + IntBitLen(n \div 2)

BBitLen(a) == IF a = <<>> THEN 0 ELSE 15 * (Len(a) - 1) + IntBitLen(a[Len(a)])

Zeros(n) == [i \in 1..n |-> 0]

\* a * 2^n
BShl(a, n) == IF a = <<>> THEN <<>> ELSE BMulSmall(Zeros(n \div 15) \o a, 2^(n % 15))

\* floor(a / 2^n)
BShr(a, n) ==
  IF n \div 15 >= Len(a) THEN <<>>
  ELSE BDivSmall(SubSeq(a, (n \div 15) + 1, Len(a)), 2^(n % 15)).q

\* a mod 2^n
BLow(a, n) == BSub(a, BShl(BShr(a, n), n))

\* a * 10^d
RECURSIVE BMulPow10(_, _)
BMulPow10(a, d) == IF d = 0 THEN a ELSE BMulPow10(BMulSmall(a, 10), d - 1)

\* floor(a / 10^d), and whether the division left a remainder
RECURSIVE BDivPow10I(_, _, _)
BDivPow10I(one, d, inexact) ==
  IF d = 0 THEN [q |-> one.q, inexact |-> inexact \/ one.r # 0]
  ELSE BDivPow10I(BDivSmall(one.q, 10), d - 1, inexact \/ one.r # 0)

BDivPow10(a, d) == BDivPow10I([q |-> a, r |-> 0], d, FALSE)

(***************************************************************************)
(* binary64 values.  A nonzero value keeps 2^52 <= m < 2^53 (the inputs    *)
(* of this program stay far from the subnormal and overflow ranges).       *)
(* Intermediate results are passed as parameters, so that each is computed *)
(* once.                                                                   *)
(***************************************************************************)
DZero == [s |-> 0, m |-> <<>>, e |-> 0]

\* q + 1 when the part dropped below q rounds it up: c is -1, 0, 1 as that
\* part is below, at, above one half; a tie goes to the even neighbour
\* (sticky: more was dropped below, so the tie is no tie)
RoundUp(q, c, sticky) ==
  IF c > 0 \/ (c = 0 /\ (sticky \/ HeadOrZero(q) % 2 = 1))
    THEN BAdd(q, <<1>>)
  ELSE q

\* n / 2^sh rounded to the nearest integer, ties to even
BRoundShr(n, sh, sticky) ==
  RoundUp(BShr(n, sh), BCmp(BLow(n, sh), BShl(<<1>>, sh - 1)), sticky)

\* q * 2^e with q < 2^54: a carry out of the 53 bits moves the exponent
Renorm(s, q, e) ==
  IF BBitLen(q) > 53 THEN [s |-> s, m |-> BShr(q, 1), e |-> e + 1]
  ELSE [s |-> s, m |-> q, e |-> e]

Round53L(s, n, e, sticky, L) ==
  IF L = 0 THEN [s |-> s, m |-> <<>>, e |-> 0]
  ELSE IF L <= 53 THEN [s |-> s, m |-> BShl(n, 53 - L), e |-> e - (53 - L)]
  ELSE Renorm(s, BRoundShr(n, L - 53, sticky), e + (L - 53))

\* n * 2^e (n a natural; sticky: a nonzero part below n was dropped),
\* rounded to 53 bits, ties to even
Round53(s, n, e, sticky) == Round53L(s, n, e, sticky, BBitLen(n))

FromQuotient(s, qd, K) == Round53(s, qd.q, -K, qd.inexact)

\* float("<digits>.<d digits>"): the binary64 value nearest n / 10^d
DFromDecimal(s, n, d) ==
  FromQuotient(s, BDivPow10(BShl(n, 64 + 4 * d), d), 64 + 4 * d)

\* x * y, correctly rounded
DMul(x, y) == Round53((x.s + y.s) % 2, BMul(x.m, y.m), x.e + y.e, FALSE)

DIsZero(x) == x.m = <<>>

\* x <= 0
DLeZero(x) == DIsZero(x) \/ x.s = 1

\* x < 0
DLtZero(x) == ~DIsZero(x) /\ x.s = 1

DAbs(x) == [x EXCEPT !.s = 0]

\* |x| * 10^d rounded to an integer on the exact binary value, ties to even
\* (the correctly rounded decimal conversion behind round() and "%.2f")
ScaledRound(x, d) ==
  IF x.e >= 0 THEN BShl(BMulPow10(x.m, d), x.e)
  ELSE BRoundShr(BMulPow10(x.m, d), -x.e, FALSE)

\* a faulty round(x, 2) that cuts the digits after the second decimal
PyRound2_Truncating(x) == DFromDecimal(x.s, BDivPow10(ScaledRound(x, 3), 1).q, 2)

\* round(x, 2): the decimal with 2 places nearest x, converted back to binary64
PyRound2(x) == DFromDecimal(x.s, ScaledRound(x, 2), 2)

\* divmod(x, 1) for x >= 0: (floor(x), x - floor(x)), both exact
DFloor(x) == IF x.e >= 0 THEN BShl(x.m, x.e) ELSE BShr(x.m, -x.e)

DFrac(x) ==
  IF x.e >= 0 THEN [s |-> 0, m |-> <<>>, e |-> 0]
  ELSE Round53(0, BLow(x.m, -x.e), x.e, FALSE)

(***************************************************************************)
(* Text.                                                                   *)
(***************************************************************************)
DigitChars == <<"0", "1", "2", "3", "4", "5", "6", "7", "8", "9">>

IsDigit(c) == \E i \in 1..10 : DigitChars[i] = c

DigitVal(c) == (CHOOSE i \in 1..10 : DigitChars[i] = c) - 1

\* str(n) for a natural n
RECURSIVE IntStr(_)
IntStr(n) ==
  IF n < 10 THEN <<DigitChars[n + 1]>>
  ELSE IntStr(n \div 10) \o <<DigitChars[(n % 10) + 1]>>

\* the natural a digit string denotes
RECURSIVE DigitsVal(_)
DigitsVal(t) ==
  IF t = <<>> THEN 0
  ELSE 10 * DigitsVal(SubSeq(t, 1, Len(t) - 1)) + DigitVal(t[Len(t)])

\* f"{n:,}" for a natural n: a comma before every group of 3 digits
RECURSIVE GroupThousands(_)
GroupThousands(t) ==
  IF Len(t) <= 3 THEN t
  ELSE GroupThousands(SubSeq(t, 1, Len(t) - 3)) \o <<",">>
         \o SubSeq(t, Len(t) - 2, Len(t))

\* s.replace(a, b) for single characters a, b
ReplaceChar(t, a, b) == [i \in 1..Len(t) |-> IF t[i] = a THEN b ELSE t[i]]

\* s.replace(a, "") for a single character a
RECURSIVE RemoveChar(_, _)
RemoveChar(t, a) ==
  IF t = <<>> THEN <<>>
  ELSE IF Head(t) = a THEN RemoveChar(Tail(t), a)
  ELSE <<Head(t)>> \o RemoveChar(Tail(t), a)

Contains(t, a) == \E i \in 1..Len(t) : t[i] = a

Repeat(c, n) == [i \in 1..n |-> c]

\* f"{x:.2f}": the sign, the integer digits, ".", two decimals
FixedTwo(s, c) ==
  (IF s = 1 THEN <<"-">> ELSE <<>>)
    \o IntStr(c \div 100) \o <<".">>
    \o <<DigitChars[((c \div 10) % 10) + 1], DigitChars[(c % 10) + 1]>>

FormatF2(x) == FixedTwo(x.s, BToInt(ScaledRound(x, 2)))

\* s.split(sep)[1]: what lies between the first and the second sep
RECURSIVE UpToSep(_, _)
UpToSep(t, sep) ==
  IF t = <<>> \/ Head(t) = sep THEN <<>>
  ELSE <<Head(t)>> \o UpToSep(Tail(t), sep)

SplitSecond(t, sep) ==
  UpToSep(SubSeq(t, Len(UpToSep(t, sep)) + 2, Len(t)), sep)


LJust(t, w) == t \o Repeat(" ", IF w > Len(t) THEN w - Len(t) ELSE 0)

RJust(t, w) == Repeat(" ", IF w > Len(t) THEN w - Len(t) ELSE 0) \o t

Max(S) == CHOOSE x \in S : \A y \in S : y <= x

\* str.isspace() on the characters of the input alphabet
IsSpace(c) == c \in {" ", "\t", "\n", "\r"}

\* s.strip()
RECURSIVE LStrip(_)
LStrip(t) == IF t # <<>> /\ IsSpace(Head(t)) THEN LStrip(Tail(t)) ELSE t

RECURSIVE RStrip(_)
RStrip(t) ==
  IF t # <<>> /\ IsSpace(t[Len(t)]) THEN RStrip(SubSeq(t, 1, Len(t) - 1)) ELSE t

Strip(t) == RStrip(LStrip(t))

\* s.replace(a + b, "") for the two-character string a + b, left to right
RECURSIVE RemovePair(_, _, _)
RemovePair(t, a, b) ==
  IF Len(t) < 2 THEN t
  ELSE IF t[1] = a /\ t[2] = b THEN RemovePair(SubSeq(t, 3, Len(t)), a, b)
  ELSE <<Head(t)>> \o RemovePair(Tail(t), a, b)

\* s.split(sep) for a single character sep
RECURSIVE Split(_, _)
Split(t, sep) ==
  IF ~Contains(t, sep) THEN <<t>>
  ELSE <<UpToSep(t, sep)>> \o Split(SubSeq(t, Len(UpToSep(t, sep)) + 2, Len(t)), sep)

\* sep.join(parts)
RECURSIVE Join(_, _)
Join(parts, sep) ==
  IF parts = <<>> THEN <<>>
  ELSE IF Len(parts) = 1 THEN parts[1]
  ELSE parts[1] \o <<sep>> \o Join(Tail(parts), sep)

\* a faulty filter that keeps the empty parts (runs are not collapsed)
NonEmpty_KeepingEmpty(parts) == parts

\* [x for x in seq if x]
RECURSIVE NonEmpty(_)
NonEmpty(parts) ==
  IF parts = <<>> THEN <<>>
  ELSE IF Head(parts) = <<>> THEN NonEmpty(Tail(parts))
  ELSE <<Head(parts)>> \o NonEmpty(Tail(parts))

AsciiLower ==
  {"a", "b", "c", "d", "e", "f", "g", "h", "i", "j", "k", "l", "m",
   "n", "o", "p", "q", "r", "s", "t", "u", "v", "w", "x", "y", "z"}

AsciiUpper ==
  {"A", "B", "C", "D", "E", "F", "G", "H", "I", "J", "K", "L", "M",
   "N", "O", "P", "Q", "R", "S", "T", "U", "V", "W", "X", "Y", "Z"}

AsciiDigit == {"0", "1", "2", "3", "4", "5", "6", "7", "8", "9"}

\* the ASCII characters of the input alphabets that are no letter or digit
AsciiOther ==
  {" ", "\t", "\n", "\r", "$", "+", ",", "-", ".", "/", ":", "_"}

IsAscii(c) == c \in AsciiLower \cup AsciiUpper \cup AsciiDigit \cup AsciiOther

IsAsciiLetter(c) == c \in AsciiLower \cup AsciiUpper

\* str.isalnum() on an ASCII character
IsAlnum(c) == c \in AsciiLower \cup AsciiUpper \cup AsciiDigit

(***************************************************************************)
(* Exceptions and float().                                                 *)
(***************************************************************************)
NoFloat == [s |-> 0, m |-> <<>>, e |-> 0]

\* a float literal of the source: the binary64 value nearest n / 10^d
Lit(n, d) == DFromDecimal(0, BFromInt(n), d)

AllDigits(t) == \A i \in 1..Len(t) : IsDigit(t[i])

FloatOk(v) == [ok |-> TRUE, v |-> v, exc |-> [type |-> "none", msg |-> "none"]]

FloatError ==
  [ok |-> FALSE, v |-> NoFloat,
   exc |-> [type |-> "ValueError", msg |-> "could not convert string to float"]]

FloatParts(s, ip, fp) ==
  IF AllDigits(ip) /\ AllDigits(fp) /\ Len(ip) + Len(fp) > 0
    THEN FloatOk(DFromDecimal(s, BFromInt(DigitsVal(ip \o fp)), Len(fp)))
  ELSE FloatError

FloatBody(s, body) ==
  FloatParts(s, UpToSep(body, "."),
             SubSeq(body, Len(UpToSep(body, ".")) + 2, Len(body)))

FloatSigned(t) ==
  FloatBody(IF t # <<>> /\ Head(t) = "-" THEN 1 ELSE 0,
            IF t # <<>> /\ Head(t) \in {"-", "+"} THEN Tail(t) ELSE t)

\* float(s) on the input alphabet: surrounding whitespace, an optional sign,
\* digits with at most one "." and at least one digit; anything else raises
\* ValueError.  (Exponents, "inf", "nan" and "_" are outside the alphabet.)
PyFloat(s) == FloatSigned(Strip(s))

(***************************************************************************)
(* mercado_livre_price_optimizer.py                                        *)
(***************************************************************************)
RULES ==
  <<
   [tipo |-> <<"P", "r", "o", "d", "u", "t", "o", " ", "N", "o", "v", "o">>,
    rules |-> <<
      [label |-> <<"P", "r", "e", "U00E7", "o", " ", "C", "o", "m", "p", "e", "t",
                  "i", "t", "i", "v", "o">>,
       mult |-> <<95, 2>>],
      [label |-> <<"P", "r", "e", "U00E7", "o", " ", "M", "u", "i", "t", "o", " ",
                  "C", "o", "m", "p", "e", "t", "i", "t", "i", "v",
                  "o">>,
       mult |-> <<87, 2>>],
      [label |-> <<"P", "r", "e", "U00E7", "o", " ", "E", "x", "t", "r", "e", "m",
                  "a", "m", "e", "n", "t", "e", " ", "C", "o", "m",
                  "p", "e", "t", "i", "t", "i", "v", "o">>,
       mult |-> <<75, 2>>],
      [label |-> <<"P", "r", "e", "U00E7", "o", " ", "c", "o", "m", " ", "P", "r",
                  "e", "s", "s", "a", " ", "M", "o", "d", "e", "r",
                  "a", "d", "a">>,
       mult |-> <<62, 2>>],
      [label |-> <<"P", "r", "e", "U00E7", "o", " ", "c", "o", "m", " ", "M", "u",
                  "i", "t", "a", " ", "P", "r", "e", "s", "s", "a">>,
       mult |-> <<49, 2>>],
      [label |-> <<"P", "r", "e", "U00E7", "o", " ", "c", "o", "m", " ", "P", "r",
                  "e", "s", "s", "a", " ", "E", "x", "t", "r", "e",
                  "m", "a", " ", "e", " ", "D", "e", "s", "e", "s",
                  "p", "e", "r", "o", " ", "M", "o", "d", "e", "r",
                  "a", "d", "o">>,
       mult |-> <<40, 2>>],
      [label |-> <<"P", "r", "e", "U00E7", "o", " ", "c", "o", "m", " ", "P", "r",
                  "e", "s", "s", "a", " ", "E", "x", "t", "r", "e",
                  "m", "a", " ", "e", " ", "E", "x", "t", "r", "e",
                  "m", "o", " ", "D", "e", "s", "e", "s", "p", "e",
                  "r", "o">>,
       mult |-> <<3333, 4>>]>>],
   [tipo |-> <<"P", "r", "o", "d", "u", "t", "o", " ", "U", "s", "a", "d", "o">>,
    rules |-> <<
      [label |-> <<"P", "r", "e", "U00E7", "o", " ", "M", "u", "i", "t", "o", " ",
                  "C", "o", "m", "p", "e", "t", "i", "t", "i", "v",
                  "o">>,
       mult |-> <<95, 2>>],
      [label |-> <<"P", "r", "e", "U00E7", "o", " ", "E", "x", "t", "r", "e", "m",
                  "a", "m", "e", "n", "t", "e", " ", "c", "o", "m",
                  "p", "e", "t", "i", "t", "i", "v", "o">>,
       mult |-> <<85, 2>>],
      [label |-> <<"P", "r", "e", "U00E7", "o", " ", "c", "o", "m", " ", "M", "o",
                  "d", "e", "r", "a", "d", "a", " ", "P", "r", "e",
                  "s", "s", "a">>,
       mult |-> <<75, 2>>],
      [label |-> <<"P", "r", "e", "U00E7", "o", " ", "c", "o", "m", " ", "M", "u",
                  "i", "t", "a", " ", "P", "r", "e", "s", "s", "a">>,
       mult |-> <<66, 2>>],
      [label |-> <<"P", "r", "e", "U00E7", "o", " ", "c", "o", "m", " ", "E", "x",
                  "t", "r", "e", "m", "a", " ", "P", "r", "e", "s",
                  "s", "a", " ", "e", " ", "D", "e", "s", "e", "s",
                  "p", "e", "r", "o">>,
       mult |-> <<50, 2>>]>>]>>


\* a faulty _parse_price that takes "," for the thousands separator when both
\* separators appear
_parse_price_CommaThousands(s) ==
  LET s1 == RemoveChar(RemovePair(Strip(s), "R", "$"), " ")
      s2 == IF Contains(s1, ",") /\ Contains(s1, ".")
              THEN RemoveChar(s1, ",")
            ELSE IF Contains(s1, ",") THEN ReplaceChar(s1, ",", ".")
            ELSE s1
  IN  PyFloat(s2)

_parse_price(s) ==
  LET s1 == RemoveChar(RemovePair(Strip(s), "R", "$"), " ")
      s2 == IF Contains(s1, ",") /\ Contains(s1, ".")
              THEN ReplaceChar(RemoveChar(s1, "."), ",", ".")
            ELSE IF Contains(s1, ",") THEN ReplaceChar(s1, ",", ".")
            ELSE s1
  IN  PyFloat(s2)

\* the messages of lines 39 and 44, their "ç" written "c"
MsgThreeLines ==
  "O arquivo precisa conter 3 linhas: nome do produto, preco novo, preco usado."

MsgPositive == "Os precos precisam ser positivos."

\* [ln.strip() for ln in f if ln.strip()]
RECURSIVE StrippedLines(_)
StrippedLines(raw) ==
  IF raw = <<>> THEN <<>>
  ELSE IF Strip(Head(raw)) = <<>> THEN StrippedLines(Tail(raw))
  ELSE <<Strip(Head(raw))>> \o StrippedLines(Tail(raw))

Raised(type, msg, parsed) ==
  [ok |-> FALSE, name |-> <<>>, p1 |-> NoFloat, p2 |-> NoFloat,
   exc |-> [type |-> type, msg |-> msg], parsed |-> parsed]

\* a faulty validation that lets prices <= 0 through
CheckPrices_NoPositivity(name, p1, p2) ==
  IF ~p1.ok THEN Raised(p1.exc.type, p1.exc.msg, 1)
  ELSE IF ~p2.ok THEN Raised(p2.exc.type, p2.exc.msg, 2)
  ELSE [ok |-> TRUE, name |-> name, p1 |-> p1.v, p2 |-> p2.v,
        exc |-> [type |-> "none", msg |-> "none"], parsed |-> 2]

\* lines 43-45: both prices parsed (a failed float() has raised on the way)
CheckPrices(name, p1, p2) ==
  IF ~p1.ok THEN Raised(p1.exc.type, p1.exc.msg, 1)
  ELSE IF ~p2.ok THEN Raised(p2.exc.type, p2.exc.msg, 2)
  ELSE IF DLeZero(p1.v) \/ DLeZero(p2.v) THEN Raised("ValueError", MsgPositive, 2)
  ELSE [ok |-> TRUE, name |-> name, p1 |-> p1.v, p2 |-> p2.v,
        exc |-> [type |-> "none", msg |-> "none"], parsed |-> 2]

\* a faulty line count, off by one: 3 lines are too few
CheckLines_OffByOne(lines) ==
  IF Len(lines) <= 3 THEN Raised("ValueError", MsgThreeLines, 0)
  ELSE CheckPrices(lines[1], _parse_price(lines[2]), _parse_price(lines[3]))

\* lines 38-42
CheckLines(lines) ==
  IF Len(lines) < 3 THEN Raised("ValueError", MsgThreeLines, 0)
  ELSE CheckPrices(lines[1], _parse_price(lines[2]), _parse_price(lines[3]))

\* parsed counts the _parse_price calls made before the return or the raise
_read_input(f) ==
  IF ~f.exists THEN Raised("FileNotFoundError", "No such file or directory", 0)
  ELSE CheckLines(StrippedLines(f.lines))

_fmt_money(v) ==
  LET inteiro   == DFloor(DAbs(v))
      frac      == DFrac(DAbs(v))
      s_inteiro == ReplaceChar(GroupThousands(IntStr(BToInt(inteiro))), ",", ".")
      s_frac    == SplitSecond(FormatF2(frac), ".")
  IN  <<"R", "$", " ">> \o (IF DLtZero(v) THEN <<"-">> ELSE <<>>)
        \o s_inteiro \o <<",">> \o s_frac

HdrCategoria == <<"C", "a", "t", "e", "g", "o", "r", "i", "a">>

HdrMultiplicador == <<"M", "u", "l", "t", "i", "p", "l", "i", "c", "a", "d", "o", "r">>

HdrPreco == <<"P", "r", "e", "U00E7", "o", " ", "O", "t", "i", "m", "i", "z",
        "a", "d", "o">>

cat_w(grupo_rows) ==
  Max({Len(HdrCategoria)}
        \cup {Len(grupo_rows[i].Categoria) : i \in 1..Len(grupo_rows)})

mult_w(grupo_rows) ==
  Max({Len(HdrMultiplicador)}
        \cup {Len(FormatF2(grupo_rows[i].Multiplicador)) : i \in 1..Len(grupo_rows)})

\* a faulty price width that leaves the header label out of the maximum
preco_w_CellsOnly(grupo_rows) ==
  Max({Len(_fmt_money(grupo_rows[i].Preco)) : i \in 1..Len(grupo_rows)})

preco_w(grupo_rows) ==
  Max({Len(HdrPreco)}
        \cup {Len(_fmt_money(grupo_rows[i].Preco)) : i \in 1..Len(grupo_rows)})

header_line(cw, mw, pw) ==
  LJust(HdrCategoria, cw) \o <<" ", " ">> \o RJust(HdrMultiplicador, mw)
    \o <<" ", " ">> \o RJust(HdrPreco, pw)

row_line(r, cw, mw, pw) ==
  LJust(r.Categoria, cw) \o <<" ", " ">> \o RJust(FormatF2(r.Multiplicador), mw)
    \o <<" ", " ">> \o RJust(_fmt_money(r.Preco), pw)

BlockLines(grupo_rows, titulo_visivel, cw, mw, pw, header) ==
  <<titulo_visivel, header, Repeat("-", Len(header))>>
    \o [i \in 1..Len(grupo_rows) |-> row_line(grupo_rows[i], cw, mw, pw)]

BlockWith(grupo_rows, titulo_visivel, cw, mw, pw) ==
  BlockLines(grupo_rows, titulo_visivel, cw, mw, pw, header_line(cw, mw, pw))

_format_block(grupo_rows, titulo_visivel) ==
  BlockWith(grupo_rows, titulo_visivel,
            cat_w(grupo_rows), mult_w(grupo_rows), preco_w(grupo_rows))

\* the (label, mult) tuple's row: mult is the float literal of the table
Row(chave, tipo, label, mult, base) ==
  [Chave |-> chave, Tipo |-> tipo, Categoria |-> label, Multiplicador |-> mult,
   Preco |-> PyRound2(DMul(base, mult))]

\* the rows of one entry of RULES, in table order
RowsOf(tipo, rules, base) ==
  [i \in 1..Len(rules) |->
     Row(<<>>, tipo, rules[i].label, Lit(rules[i].mult[1], rules[i].mult[2]), base)]

\* a faulty base_map with the two base prices swapped
base_map_Swapped(tipo, preco_novo, preco_usado) ==
  IF tipo = RULES[1].tipo THEN preco_usado ELSE preco_novo

base_map(tipo, preco_novo, preco_usado) ==
  IF tipo = RULES[1].tipo THEN preco_novo ELSE preco_usado

RECURSIVE RowsFrom(_, _, _)
RowsFrom(groups, preco_novo, preco_usado) ==
  IF groups = <<>> THEN <<>>
  ELSE RowsOf(Head(groups).tipo, Head(groups).rules,
              base_map(Head(groups).tipo, preco_novo, preco_usado))
         \o RowsFrom(Tail(groups), preco_novo, preco_usado)

compute_rows(preco_novo, preco_usado) == RowsFrom(RULES, preco_novo, preco_usado)

\* [r for r in rows if r["Tipo"] == tipo]
RECURSIVE Grupo(_, _)
Grupo(rows, tipo) ==
  IF rows = <<>> THEN <<>>
  ELSE IF Head(rows).Tipo = tipo THEN <<Head(rows)>> \o Grupo(Tail(rows), tipo)
  ELSE Grupo(Tail(rows), tipo)

ProdutoPrefix == <<"P", "r", "o", "d", "u", "t", "o", ":", " ">>

\* the literals of line 87
TipoNovo == <<"P", "r", "o", "d", "u", "t", "o", " ", "N", "o", "v", "o">>

TipoUsado == <<"P", "r", "o", "d", "u", "t", "o", " ", "U", "s", "a", "d", "o">>

\* lines 89-93: one group's block, and the blank line after the first
BlockOf(grupo, titulo, i) ==
  IF grupo = <<>> THEN <<>>
  ELSE _format_block(grupo, titulo) \o (IF i = 1 THEN <<<<>>>> ELSE <<>>)

RECURSIVE BlocksFrom(_, _, _)
BlocksFrom(rows, tipos, i) ==
  IF i > Len(tipos) THEN <<>>
  ELSE BlockOf(Grupo(rows, tipos[i]), tipos[i], i) \o BlocksFrom(rows, tipos, i + 1)

_build_output_lines(rows, produto) ==
  <<ProdutoPrefix \o produto, <<>>>> \o BlocksFrom(rows, <<TipoNovo, TipoUsado>>, 1)

\* the lines print_table writes to the console
print_table(rows, produto) == _build_output_lines(rows, produto)

\* the lines save_png_table draws, one ax.text per line, top to bottom
save_png_table(rows, produto) == _build_output_lines(rows, produto)

\* unicodedata.normalize("NFKD", c) for one character of the name alphabet
NFKD(c) ==
  CASE c = "U00E7" -> <<"c", "U0327">>
    [] c = "U00E9" -> <<"e", "U0301">>
    [] c = "U00E2" -> <<"a", "U0302">>
    [] c = "U00E3" -> <<"a", "U0303">>
    [] c = "U00F5" -> <<"o", "U0303">>
    [] c = "U00BD" -> <<"1", "U2044", "2">>
    [] c = "UFB01" -> <<"f", "i">>
    [] OTHER -> <<c>>

RECURSIVE Normalize(_)
Normalize(t) == IF t = <<>> THEN <<>> ELSE NFKD(Head(t)) \o Normalize(Tail(t))

\* norm.encode("ascii", "ignore").decode("ascii")
RECURSIVE AsciiOnly(_)
AsciiOnly(t) ==
  IF t = <<>> THEN <<>>
  ELSE IF IsAscii(Head(t)) THEN <<Head(t)>> \o AsciiOnly(Tail(t))
  ELSE AsciiOnly(Tail(t))

SafeChar(ch) == IF IsAlnum(ch) \/ ch \in {"-", "_"} THEN ch ELSE "_"

SlugDefault == <<"p", "r", "o", "d", "u", "t", "o">>

Safe(stripped) == [i \in 1..Len(stripped) |-> SafeChar(stripped[i])]

OrDefault(safe) == IF safe = <<>> THEN SlugDefault ELSE safe

_slug_filename(name) ==
  OrDefault(Join(NonEmpty(Split(Safe(Strip(AsciiOnly(Normalize(name)))), "_")), "_"))

(***************************************************************************)
(* MercadoLivrePriceOptimizer.py.  Its _parse_price, _read_input,          *)
(* _fmt_money and _format_block are those above, line for line.            *)
(***************************************************************************)
novo_rules ==
  <<
   [chave |-> <<"1", ".", "A">>,
    tipo |-> <<"P", "r", "o", "d", "u", "t", "o", " ", "(", "1", ")", " ", "N",
        "o", "v", "o">>,
    categoria |-> <<"A", " ", "-", " ", "P", "r", "e", "U00E7", "o", " ", "C", "o",
                   "m", "p", "e", "t", "i", "t", "i", "v", "o", " ",
                   "0", ",", "9", "5", "x">>,
    mult |-> <<95, 2>>],
   [chave |-> <<"1", ".", "B">>,
    tipo |-> <<"P", "r", "o", "d", "u", "t", "o", " ", "(", "1", ")", " ", "N",
        "o", "v", "o">>,
    categoria |-> <<"B", " ", "-", " ", "P", "r", "e", "U00E7", "o", " ", "M", "u",
                   "i", "t", "o", " ", "C", "o", "m", "p", "e", "t",
                   "i", "t", "i", "v", "o", " ", "0", ",", "8", "7",
                   "x">>,
    mult |-> <<87, 2>>],
   [chave |-> <<"1", ".", "C">>,
    tipo |-> <<"P", "r", "o", "d", "u", "t", "o", " ", "(", "1", ")", " ", "N",
        "o", "v", "o">>,
    categoria |-> <<"C", " ", "-", " ", "P", "r", "e", "U00E7", "o", " ", "E", "x",
                   "t", "r", "e", "m", "a", "m", "e", "n", "t", "e",
                   " ", "C", "o", "m", "p", "e", "t", "i", "t", "i",
                   "v", "o", " ", "0", ",", "7", "5", "x">>,
    mult |-> <<75, 2>>],
   [chave |-> <<"1", ".", "D">>,
    tipo |-> <<"P", "r", "o", "d", "u", "t", "o", " ", "(", "1", ")", " ", "N",
        "o", "v", "o">>,
    categoria |-> <<"D", " ", "-", " ", "P", "r", "e", "U00E7", "o", " ", "c", "o",
                   "m", " ", "P", "r", "e", "s", "s", "a", " ", "M",
                   "o", "d", "e", "r", "a", "d", "a", " ", "0", ",",
                   "6", "2", "x">>,
    mult |-> <<62, 2>>],
   [chave |-> <<"1", ".", "E">>,
    tipo |-> <<"P", "r", "o", "d", "u", "t", "o", " ", "(", "1", ")", " ", "N",
        "o", "v", "o">>,
    categoria |-> <<"E", " ", "-", " ", "P", "r", "e", "U00E7", "o", " ", "c", "o",
                   "m", " ", "M", "u", "i", "t", "a", " ", "P", "r",
                   "e", "s", "s", "a", " ", "0", ",", "4", "9", "x">>,
    mult |-> <<49, 2>>],
   [chave |-> <<"1", ".", "F">>,
    tipo |-> <<"P", "r", "o", "d", "u", "t", "o", " ", "(", "1", ")", " ", "N",
        "o", "v", "o">>,
    categoria |-> <<"F", " ", "-", " ", "P", "r", "e", "U00E7", "o", " ", "c", "o",
                   "m", " ", "E", "x", "t", "r", "e", "m", "a", " ",
                   "P", "r", "e", "s", "s", "a", " ", "e", " ", "D",
                   "e", "s", "e", "s", "p", "e", "r", "o", " ", "M",
                   "o", "d", "e", "r", "a", "d", "o", " ", "0", ",",
                   "4", "x">>,
    mult |-> <<40, 2>>],
   [chave |-> <<"1", ".", "G">>,
    tipo |-> <<"P", "r", "o", "d", "u", "t", "o", " ", "(", "1", ")", " ", "N",
        "o", "v", "o">>,
    categoria |-> <<"G", " ", "-", " ", "P", "r", "e", "U00E7", "o", " ", "c", "o",
                   "m", " ", "E", "x", "t", "r", "e", "m", "a", " ",
                   "P", "r", "e", "s", "s", "a", " ", "e", " ", "E",
                   "x", "t", "r", "e", "m", "o", " ", "D", "e", "s",
                   "e", "s", "p", "e", "r", "o", " ", "0", ",", "3",
                   "3", "3", "3", "x">>,
    mult |-> <<3333, 4>>]>>

usado_rules ==
  <<
   [chave |-> <<"2", ".", "A">>,
    tipo |-> <<"P", "r", "o", "d", "u", "t", "o", " ", "(", "2", ")", " ", "U",
        "s", "a", "d", "o">>,
    categoria |-> <<"A", " ", "-", " ", "P", "r", "e", "U00E7", "o", " ", "M", "u",
                   "i", "t", "o", " ", "C", "o", "m", "p", "e", "t",
                   "i", "t", "i", "v", "o", " ", "0", ",", "9", "5",
                   "x">>,
    mult |-> <<95, 2>>],
   [chave |-> <<"2", ".", "B">>,
    tipo |-> <<"P", "r", "o", "d", "u", "t", "o", " ", "(", "2", ")", " ", "U",
        "s", "a", "d", "o">>,
    categoria |-> <<"B", " ", "-", " ", "P", "r", "e", "U00E7", "o", " ", "E", "x",
                   "t", "r", "e", "m", "a", "m", "e", "n", "t", "e",
                   " ", "c", "o", "m", "p", "e", "t", "i", "t", "i",
                   "v", "o", " ", "0", ",", "8", "5", "x">>,
    mult |-> <<85, 2>>],
   [chave |-> <<"2", ".", "C">>,
    tipo |-> <<"P", "r", "o", "d", "u", "t", "o", " ", "(", "2", ")", " ", "U",
        "s", "a", "d", "o">>,
    categoria |-> <<"C", " ", "-", " ", "P", "r", "e", "U00E7", "o", " ", "c", "o",
                   "m", " ", "M", "o", "d", "e", "r", "a", "d", "a",
                   " ", "P", "r", "e", "s", "s", "a", " ", "0", ",",
                   "7", "5", "x">>,
    mult |-> <<75, 2>>],
   [chave |-> <<"2", ".", "D">>,
    tipo |-> <<"P", "r", "o", "d", "u", "t", "o", " ", "(", "2", ")", " ", "U",
        "s", "a", "d", "o">>,
    categoria |-> <<"D", " ", "-", " ", "P", "r", "e", "U00E7", "o", " ", "c", "o",
                   "m", " ", "M", "u", "i", "t", "a", " ", "P", "r",
                   "e", "s", "s", "a", " ", "0", ",", "6", "6", "x">>,
    mult |-> <<66, 2>>],
   [chave |-> <<"2", ".", "E">>,
    tipo |-> <<"P", "r", "o", "d", "u", "t", "o", " ", "(", "2", ")", " ", "U",
        "s", "a", "d", "o">>,
    categoria |-> <<"E", " ", "-", " ", "P", "r", "e", "U00E7", "o", " ", "c", "o",
                   "m", " ", "E", "x", "t", "r", "e", "m", "a", " ",
                   "P", "r", "e", "s", "s", "a", " ", "e", " ", "D",
                   "e", "s", "e", "s", "p", "e", "r", "o", " ", "0",
                   ",", "5", "0", "x">>,
    mult |-> <<50, 2>>]>>

\* re.sub(r"\s*0[,.]\d+x$", "", s): does t, whole, match \s*0[,.]\d+x
MatchesMultSuffix(t) ==
  LET u == LStrip(t)
  IN  /\ Len(u) >= 4
      /\ u[1] = "0"
      /\ u[2] \in {",", "."}
      /\ u[Len(u)] = "x"
      /\ AllDigits(SubSeq(u, 3, Len(u) - 1))

DropMultSuffix(s) ==
  LET starts == {i \in 1..Len(s) : MatchesMultSuffix(SubSeq(s, i, Len(s)))}
  IN  IF starts = {} THEN s
      ELSE SubSeq(s, 1, (CHOOSE i \in starts : \A j \in starts : i <= j) - 1)

\* re.sub(r"^[A-Za-z]\s*-\s*", "", s)
DropLetterPrefix(s) ==
  IF s = <<>> \/ ~IsAsciiLetter(Head(s)) THEN s
  ELSE LET a == LStrip(Tail(s))
       IN  IF a = <<>> \/ Head(a) # "-" THEN s ELSE LStrip(Tail(a))

_clean_categoria(label) == DropLetterPrefix(DropMultSuffix(Strip(label)))

\* lines 61-76: one row per rule, in table order
LegacyRows(rules, base) ==
  [i \in 1..Len(rules) |->
     Row(rules[i].chave, rules[i].tipo, _clean_categoria(rules[i].categoria),
         Lit(rules[i].mult[1], rules[i].mult[2]), base)]

\* the code point order of the characters of the keys
CodePoint(c) ==
  CASE c = "." -> 46
    [] c \in AsciiDigit -> 48 + DigitVal(c)
    [] c = "A" -> 65 [] c = "B" -> 66 [] c = "C" -> 67 [] c = "D" -> 68
    [] c = "E" -> 69 [] c = "F" -> 70 [] c = "G" -> 71

\* a < b for str
RECURSIVE StrLess(_, _)
StrLess(a, b) ==
  IF b = <<>> THEN FALSE
  ELSE IF a = <<>> THEN TRUE
  ELSE IF CodePoint(Head(a)) # CodePoint(Head(b))
    THEN CodePoint(Head(a)) < CodePoint(Head(b))
  ELSE StrLess(Tail(a), Tail(b))

\* a faulty sort key order: descending
KeyLess_Descending(r1, r2) == StrLess(r2.Chave, r1.Chave)

KeyLess(r1, r2) == StrLess(r1.Chave, r2.Chave)

\* stable insertion of r into a list sorted by key
RECURSIVE InsertByKey(_, _)
InsertByKey(sorted, r) ==
  IF sorted = <<>> THEN <<r>>
  ELSE IF KeyLess(r, Head(sorted)) THEN <<r>> \o sorted
  ELSE <<Head(sorted)>> \o InsertByKey(Tail(sorted), r)

\* rows.sort(key=lambda r: r["Chave"]): stable, ascending
RECURSIVE SortByKey(_)
SortByKey(rows) ==
  IF rows = <<>> THEN <<>>
  ELSE InsertByKey(SortByKey(SubSeq(rows, 1, Len(rows) - 1)), rows[Len(rows)])

compute_rows_legacy(preco_novo, preco_usado) ==
  SortByKey(LegacyRows(novo_rules, preco_novo) \o LegacyRows(usado_rules, preco_usado))

\* the literals of lines 96-97 (and 107-109)
LegacyTipoNovo == <<"P", "r", "o", "d", "u", "t", "o", " ", "(", "1", ")", " ", "N",
        "o", "v", "o">>

LegacyTipoUsado == <<"P", "r", "o", "d", "u", "t", "o", " ", "(", "2", ")", " ", "U",
        "s", "a", "d", "o">>

titulo_map(tipo) == IF tipo = LegacyTipoNovo THEN TipoNovo ELSE TipoUsado

\* lines 99-103: one group's block, then print()
LegacyPrintBlock(grupo, titulo) ==
  IF grupo = <<>> THEN <<>> ELSE _format_block(grupo, titulo) \o <<<<>>>>

\* print_table: the header and a blank line, then every block followed by print()
RECURSIVE LegacyPrintBlocks(_, _, _)
LegacyPrintBlocks(rows, tipos, i) ==
  IF i > Len(tipos) THEN <<>>
  ELSE LegacyPrintBlock(Grupo(rows, tipos[i]), titulo_map(tipos[i]))
         \o LegacyPrintBlocks(rows, tipos, i + 1)

print_table_legacy(rows, produto) ==
  <<ProdutoPrefix \o produto, <<>>>>
    \o LegacyPrintBlocks(rows, <<LegacyTipoNovo, LegacyTipoUsado>>, 1)

\* save_png_table: all_lines, a blank line only after the first block
RECURSIVE LegacyPngBlocks(_, _, _)
LegacyPngBlocks(rows, tipos, i) ==
  IF i > Len(tipos) THEN <<>>
  ELSE BlockOf(Grupo(rows, tipos[i]), titulo_map(tipos[i]), i)
         \o LegacyPngBlocks(rows, tipos, i + 1)

save_png_table_legacy(rows, produto) ==
  <<ProdutoPrefix \o produto, <<>>>>
    \o LegacyPngBlocks(rows, <<LegacyTipoNovo, LegacyTipoUsado>>, 1)

\* main: base = f"preco_otimizado_{_slug_filename(produto)}", then
\* out_dir / f"{base}.png" and out_dir / f"{base}.txt"
OutputBase(produto) == <<"p", "r", "e", "c", "o", "_", "o", "t", "i", "m", "i", "z", "a",
        "d", "o", "_">> \o _slug_filename(produto)

png_path(produto) == OutputBase(produto) \o <<".", "p", "n", "g">>

txt_path(produto) == OutputBase(produto) \o <<".", "t", "x", "t">>

\* save_png_table's default output_path, which the legacy main uses
LegacyPngPath == <<"p", "r", "e", "c", "o", "s", "_", "o", "t", "i", "m", "i", "z",
        "a", "d", "o", "s", ".", "p", "n", "g">>

\* f.write("\n".join(lines) + "\n")
TxtContent(lines) == Join(lines, "\n") \o <<"\n">>

\* the lines of a text file's content, each ended by "\n"
DropLastEmpty(parts) ==
  IF parts[Len(parts)] = <<>> THEN SubSeq(parts, 1, Len(parts) - 1) ELSE parts

FileLines(content) == DropLastEmpty(Split(content, "\n"))

(***************************************************************************)
(* Bounds and input alphabets.                                             *)
(***************************************************************************)
MaxLines == 3
MaxCents == 60
MaxMills == 9
MaxMoneyMills == 1100
MaxNameLen == 4
MaxPriceLen == 4
MaxHead == 12

\* the sequences over S of length at most n
SeqsUpTo(S, n) == UNION {[1..k -> S] : k \in 0..n}

Impls == {"new", "legacy"}

LineBlank == <<" ">>
LineName == <<"W", "i", "d", "g", "e", "t", " ", "X">>
LinePriceA == <<"R", "$", " ", "1", ".", "2", "3", "4", ",", "5", "6">>
LinePriceB == <<"0", ",", "0", "1">>
LineZero == <<"0">>
LineNegative == <<"-", "5">>

LineSamples == {LineBlank, LineName, LinePriceA, LinePriceB, LineZero, LineNegative}

Files ==
  {[exists |-> FALSE, lines |-> <<>>]}
    \cup {[exists |-> TRUE, lines |-> ls] : ls \in SeqsUpTo(LineSamples, MaxLines)}

(***************************************************************************)
(* One run of main().                                                      *)
(***************************************************************************)
VARIABLES
  pc,           \* the statement main is at
  impl,         \* which script runs
  argv_path,    \* whether sys.argv names the input path
  file,         \* the input file: whether it exists, and its raw lines
  produto, preco_novo, preco_usado,
  rows,
  err,          \* the exception main caught, and the _parse_price calls before it
  console,      \* what was printed: [src, text], in order
  png,          \* the image written: its name and the lines drawn
  txt,          \* the text file written: its name and its content
  exit_code,    \* -1 while running
  call          \* one call of a function on its own (the function harnesses)

vars == <<pc, impl, argv_path, file, produto, preco_novo, preco_usado, rows,
          err, console, png, txt, exit_code, call>>

NoExc == [type |-> "none", msg |-> "none"]
NoFile == [written |-> FALSE, name |-> <<>>, body |-> <<>>]
NoCall == [fn |-> "none"]

RunIdle ==
  /\ produto = <<>>
  /\ preco_novo = NoFloat
  /\ preco_usado = NoFloat
  /\ rows = <<>>
  /\ err = [exc |-> NoExc, parsed |-> 0]
  /\ console = <<>>
  /\ png = NoFile
  /\ txt = NoFile
  /\ exit_code = -1

Init ==
  /\ pc = "start"
  /\ impl \in Impls
  /\ argv_path \in BOOLEAN
  /\ file \in Files
  /\ RunIdle
  /\ call = NoCall

Printed(src, lines) == [i \in 1..Len(lines) |-> [src |-> src, text |-> lines[i]]]

\* lines 142-150 (legacy 144-152): the path from sys.argv, or the default
\* candidate when it exists; otherwise a message and sys.exit(1)
MainResolvePath ==
  /\ pc = "start"
  /\ IF argv_path \/ file.exists
       THEN /\ pc' = "read"
            /\ UNCHANGED <<console, exit_code>>
       ELSE /\ pc' = "exit"
            /\ console' = console \o Printed("main", <<<<"Arquivo de entrada nao encontrado.">>>>)
            /\ exit_code' = 1
  /\ UNCHANGED <<impl, argv_path, file, produto, preco_novo, preco_usado, rows,
                 err, png, txt, call>>

\* what main does with _read_input's outcome r
ReadOutcome(r) ==
  IF r.ok
    THEN /\ produto' = r.name
         /\ preco_novo' = r.p1
         /\ preco_usado' = r.p2
         /\ err' = [exc |-> NoExc, parsed |-> r.parsed]
         /\ pc' = "compute"
         /\ UNCHANGED <<console, exit_code>>
    ELSE /\ err' = [exc |-> r.exc, parsed |-> r.parsed]
         /\ console' = console
              \o Printed("main", <<<<"Erro ao ler arquivo de entrada", r.exc.msg>>>>)
         /\ exit_code' = 1
         /\ pc' = "exit"
         /\ UNCHANGED <<produto, preco_novo, preco_usado>>

\* lines 152-156 (legacy 153-157): _read_input, any exception printed, exit 1
MainReadInput ==
  /\ pc = "read"
  /\ ReadOutcome(_read_input(file))
  /\ UNCHANGED <<impl, argv_path, file, rows, png, txt, call>>

\* line 158
MainComputeRows ==
  /\ pc = "compute"
  /\ rows' = IF impl = "new" THEN compute_rows(preco_novo, preco_usado)
             ELSE compute_rows_legacy(preco_novo, preco_usado)
  /\ pc' = "print"
  /\ UNCHANGED <<impl, argv_path, file, produto, preco_novo, preco_usado,
                 err, console, png, txt, exit_code, call>>

\* line 159
MainPrintTable ==
  /\ pc = "print"
  /\ console' = console
       \o Printed("print_table",
                  IF impl = "new" THEN print_table(rows, produto)
                  ELSE print_table_legacy(rows, produto))
  /\ pc' = "png"
  /\ UNCHANGED <<impl, argv_path, file, produto, preco_novo, preco_usado, rows,
                 err, png, txt, exit_code, call>>

\* lines 161-166 (legacy 160)
MainSavePng ==
  /\ pc = "png"
  /\ png' = IF impl = "new"
              THEN [written |-> TRUE, name |-> png_path(produto),
                    body |-> save_png_table(rows, produto)]
              ELSE [written |-> TRUE, name |-> LegacyPngPath,
                    body |-> save_png_table_legacy(rows, produto)]
  /\ pc' = IF impl = "new" THEN "txt" ELSE "report"
  /\ UNCHANGED <<impl, argv_path, file, produto, preco_novo, preco_usado, rows,
                 err, console, txt, exit_code, call>>

\* lines 167-168 (the legacy script writes no text file)
MainWriteTxt ==
  /\ pc = "txt"
  /\ txt' = [written |-> TRUE, name |-> txt_path(produto),
             body |-> TxtContent(_build_output_lines(rows, produto))]
  /\ pc' = "report"
  /\ UNCHANGED <<impl, argv_path, file, produto, preco_novo, preco_usado, rows,
                 err, console, png, exit_code, call>>

\* line 170 (legacy 161), and the normal return: exit status 0
MainReport ==
  /\ pc = "report"
  /\ console' = console
       \o Printed("main", <<<<>>, <<IF impl = "new" THEN "Arquivos gerados:"
                                   ELSE "Imagem gerada:">>>>)
  /\ exit_code' = 0
  /\ pc' = "exit"
  /\ UNCHANGED <<impl, argv_path, file, produto, preco_novo, preco_usado, rows,
                 err, png, txt, call>>

Next ==
  \/ MainResolvePath
  \/ MainReadInput
  \/ MainComputeRows
  \/ MainPrintTable
  \/ MainSavePng
  \/ MainWriteTxt
  \/ MainReport

Spec == Init /\ [][Next]_vars

(***************************************************************************)
(* The functions on their own: each harness draws the arguments of one     *)
(* call from a bounded set and applies the function to them.               *)
(***************************************************************************)
HarnessIdle ==
  /\ pc = "harness"
  /\ argv_path = FALSE
  /\ file = [exists |-> FALSE, lines |-> <<>>]
  /\ RunIdle

RunVars == <<pc, impl, argv_path, file, produto, preco_novo, preco_usado, rows,
             err, console, png, txt, exit_code>>

\* a price as its decimal text denotes it: <<n, d>> is n / 10^d
FloatOf(p) == Lit(p[1], p[2])

\* whole cents, fractions of a cent, and prices wide enough to widen a column
Prices ==
  {<<n, 2>> : n \in 1..MaxCents}
    \cup {<<n, 3>> : n \in 1..MaxMills}
    \cup {<<100000, 2>>, <<123456, 2>>, <<2000000000, 2>>}

\* the prices every other price is paired with
PairedPrices == {<<25, 2>>, <<30, 2>>, <<123456, 2>>}

InitRows ==
  /\ HarnessIdle
  /\ impl \in Impls
  /\ \E novo \in Prices, usado \in Prices :
       /\ novo \in PairedPrices \/ usado \in PairedPrices
       /\ call = [fn |-> "compute_rows", stage |-> "input", novo |-> novo,
                    usado |-> usado, rows |-> <<>>, tipo |-> <<>>, block |-> <<>>]

\* rows = compute_rows(preco_novo, preco_usado)
CallComputeRows ==
  /\ call.fn = "compute_rows"
  /\ call.stage = "input"
  /\ call' = [call EXCEPT
                !.stage = "rows",
                !.rows = IF impl = "new"
                           THEN compute_rows(FloatOf(call.novo), FloatOf(call.usado))
                         ELSE compute_rows_legacy(FloatOf(call.novo), FloatOf(call.usado))]
  /\ UNCHANGED RunVars

NovoOf(i) == IF i = "new" THEN TipoNovo ELSE LegacyTipoNovo

UsadoOf(i) == IF i = "new" THEN TipoUsado ELSE LegacyTipoUsado

\* _format_block(grupo, titulo) on one of the two groups, as the writers call it
CallFormatBlock ==
  /\ call.fn = "compute_rows"
  /\ call.stage = "rows"
  /\ \E novo \in BOOLEAN :
       call' = [call EXCEPT
                  !.stage = "block",
                  !.tipo = IF novo THEN NovoOf(impl) ELSE UsadoOf(impl),
                  !.block = _format_block(
                              Grupo(call.rows, IF novo THEN NovoOf(impl) ELSE UsadoOf(impl)),
                              IF novo THEN TipoNovo ELSE TipoUsado)]
  /\ UNCHANGED RunVars

NextRows == CallComputeRows \/ CallFormatBlock

SpecRows == InitRows /\ [][NextRows]_vars

\* amounts in thousandths, of both signs, and a few wide ones: [s, n, d]
MoneyValues ==
  {[s |-> s, n |-> n, d |-> 3] : s \in {0, 1}, n \in 0..MaxMoneyMills}
    \cup {[s |-> s, n |-> n, d |-> 3] :
            s \in {0, 1}, n \in {999995, 1234500, 999999999, 1234567891}}

InitMoney ==
  /\ HarnessIdle
  /\ impl \in Impls
  /\ \E v \in MoneyValues :
       call = [fn |-> "_fmt_money", stage |-> "input", arg |-> v, ret |-> <<>>]

CallFmtMoney ==
  /\ call.fn = "_fmt_money"
  /\ call.stage = "input"
  /\ call' = [call EXCEPT
                !.stage = "done",
                !.ret = _fmt_money(DFromDecimal(call.arg.s, BFromInt(call.arg.n),
                                                call.arg.d))]
  /\ UNCHANGED RunVars

NextMoney == CallFmtMoney

SpecMoney == InitMoney /\ [][NextMoney]_vars

PriceAlphabet == {"0", "1", ",", ".", " ", "R", "$", "-"}

PricePrefixes == {<<>>, <<"R", "$">>, <<"R", "$", " ">>}

PriceGroups ==
  {<<>>, <<".", "2", "3", "4">>, <<".", "0", "0", "0">>,
   <<".", "2", "3", "4", ".", "5", "6", "7">>}

PriceFractions ==
  {<<>>, <<",", "5">>, <<",", "5", "6">>, <<",", "0", "0">>,
   <<".", "5">>, <<".", "5", "6">>}

\* every short string over the alphabet, and the shapes of a written price
PriceStrings ==
  SeqsUpTo(PriceAlphabet, MaxPriceLen)
    \cup {pre \o IntStr(h) \o g \o f :
            pre \in PricePrefixes, h \in 1..MaxHead,
            g \in PriceGroups, f \in PriceFractions}
    \cup {<<"1", "2", "3", "4", ".", "5", "6">>, <<" ", "R", "$", " ", "1", "2", "3", "4", ",", "5", " ">>}

InitParse ==
  /\ HarnessIdle
  /\ impl \in Impls
  /\ \E t \in PriceStrings :
       call = [fn |-> "_parse_price", stage |-> "input", arg |-> t, ret |-> FloatError]

CallParsePrice ==
  /\ call.fn = "_parse_price"
  /\ call.stage = "input"
  /\ call' = [call EXCEPT !.stage = "done", !.ret = _parse_price(call.arg)]
  /\ UNCHANGED RunVars

NextParse == CallParsePrice

SpecParse == InitParse /\ [][NextParse]_vars

NameAlphabet == {"a", "Z", "7", " ", "-", "_", "/", "U00E9", "U00DF"}

NoNames == [slug |-> <<>>, png |-> <<>>, txt |-> <<>>]

InitSlug ==
  /\ HarnessIdle
  /\ impl = "new"
  /\ \E name \in SeqsUpTo(NameAlphabet, MaxNameLen) :
       call = [fn |-> "_slug_filename", stage |-> "input", arg |-> name,
               ret |-> NoNames]

\* main, lines 162-164: the slug of the product name and the two file names
CallSlugFilename ==
  /\ call.fn = "_slug_filename"
  /\ call.stage = "input"
  /\ call' = [call EXCEPT
                !.stage = "done",
                !.ret = [slug |-> _slug_filename(call.arg),
                         png  |-> png_path(call.arg),
                         txt  |-> txt_path(call.arg)]]
  /\ UNCHANGED RunVars

NextSlug == CallSlugFilename

SpecSlug == InitSlug /\ [][NextSlug]_vars

(***************************************************************************)
(* Properties.                                                             *)
(***************************************************************************)
\* the amount of x in cents (x is a multiple of 0.01 as round() returned it)
Cents(x) == BToInt(ScaledRound(x, 2))

AbsDiff(a, b) == IF BCmp(a, b) >= 0 THEN BSub(a, b) ELSE BSub(b, a)

\* x <= y for x, y >= 0
DLe(x, y) ==
  \/ DIsZero(x)
  \/ /\ ~DIsZero(y)
     /\ \/ x.e < y.e
        \/ x.e = y.e /\ BCmp(x.m, y.m) <= 0

\* the multipliers of the two tables, in table order, in units of 0.0001
ExpectedMults ==
  <<9500, 8700, 7500, 6200, 4900, 4000, 3333, 9500, 8500, 7500, 6600, 5000>>

\* the base price of row i of the harness call
BaseOf(i) == IF i <= 7 THEN call.novo ELSE call.usado

\* the exact decimal product p * M / 10^4, in units of 10^-(p[2] + 4)
ExactProduct(p, M) == BMul(BFromInt(p[1]), BFromInt(M))

\* |c / 100 - p * M / 10^4| <= 0.005
WithinHalfCent(c, p, M) ==
  BCmp(AbsDiff(BMulPow10(BFromInt(c), p[2] + 2), ExactProduct(p, M)),
       BMulPow10(<<5>>, p[2] + 1)) <= 0

\* the exact product rounded half up to cents
HalfUpCents(p, M) ==
  BToInt(BDivPow10(BAdd(ExactProduct(p, M), BMulPow10(<<5>>, p[2] + 1)), p[2] + 2).q)

\* the exact product lies exactly between two cents
IsTie(p, M) ==
  LET q == BDivPow10(ExactProduct(p, M), p[2] + 1)
  IN  ~q.inexact /\ BDivSmall(q.q, 10).r = 5

RowsComputed == call.fn = "compute_rows" /\ call.stage # "input"

\* C1: compute_rows returns exactly 12 rows, the 7 New rows in table order
\* and then the 5 Used rows in table order, with the tables' multipliers, the
\* New rows priced from newPrice and the Used rows from usedPrice (within half
\* a cent of base * multiplier); so also after the legacy script's sort by key.
C1_TwelveRowsInTableOrder ==
  RowsComputed =>
    /\ Len(call.rows) = 12
    /\ \A i \in 1..12 :
         /\ call.rows[i].Tipo = IF i <= 7 THEN NovoOf(impl) ELSE UsadoOf(impl)
         /\ call.rows[i].Multiplicador = Lit(ExpectedMults[i], 4)
         /\ WithinHalfCent(Cents(call.rows[i].Preco), BaseOf(i), ExpectedMults[i])

C1_Witness ==
  /\ RowsComputed
  /\ impl = "legacy"
  /\ call.novo = <<100000, 2>>
  /\ call.usado = <<30, 2>>
  /\ Len(call.rows) = 12
  /\ call.rows[1].Preco = Lit(95000, 2)
  /\ call.rows[12].Preco = Lit(15, 2)

\* C2 as stated: every row's price is base * multiplier rounded half up to
\* cents, a product ending in exactly half a cent going up.
C2_HalfUpAlways ==
  RowsComputed =>
    \A i \in 1..Len(call.rows) :
      call.rows[i].Preco = Lit(HalfUpCents(BaseOf(i), ExpectedMults[i]), 2)

\* C2 amended: the price is round() of the binary64 product: it is the
\* half-up cent whenever the decimal product is not exactly half a cent, and
\* at half a cent it is one of the two neighbouring cents, whichever the
\* binary product is nearer to (the even one when it is exactly between).
C2_NearestCentTiesEitherWay ==
  RowsComputed =>
    \A i \in 1..Len(call.rows) :
      IF IsTie(BaseOf(i), ExpectedMults[i])
        THEN call.rows[i].Preco
               \in {Lit(HalfUpCents(BaseOf(i), ExpectedMults[i]), 2),
                    Lit(HalfUpCents(BaseOf(i), ExpectedMults[i]) - 1, 2)}
      ELSE call.rows[i].Preco = Lit(HalfUpCents(BaseOf(i), ExpectedMults[i]), 2)

\* 0.30 * 0.95 = 0.285 comes out as 0.28, and 0.25 * 0.50 = 0.125 as 0.12
C2_Witness ==
  /\ RowsComputed
  /\ call.novo = <<30, 2>>
  /\ call.usado = <<25, 2>>
  /\ IsTie(call.novo, ExpectedMults[1])
  /\ call.rows[1].Preco = Lit(28, 2)
  /\ IsTie(call.usado, ExpectedMults[12])
  /\ call.rows[12].Preco = Lit(12, 2)

\* C9 as stated: for positive base prices every price is strictly positive
\* and not greater than its base price.
C9_StrictlyPositiveAtMostBase ==
  RowsComputed =>
    \A i \in 1..Len(call.rows) :
      /\ ~DLeZero(call.rows[i].Preco)
      /\ DLe(call.rows[i].Preco, FloatOf(BaseOf(i)))

\* at least 0.02
AtLeastTwoCents(p) == IF p[2] = 2 THEN p[1] >= 2 ELSE p[1] >= 20

\* C9 amended: for positive base prices no price is negative (the "-" of the
\* formatter is never reached); a price is strictly positive when its base is
\* at least 0.02, and not greater than its base when the base is a whole
\* number of cents.
C9_NeverNegative ==
  RowsComputed =>
    \A i \in 1..Len(call.rows) :
      /\ call.rows[i].Preco.s = 0
      /\ AtLeastTwoCents(BaseOf(i)) => ~DLeZero(call.rows[i].Preco)
      /\ BaseOf(i)[2] = 2 => DLe(call.rows[i].Preco, FloatOf(BaseOf(i)))

\* base 0.01: 0.01 * 0.3333 rounds to 0.00
C9_Witness ==
  /\ RowsComputed
  /\ call.novo = <<1, 2>>
  /\ DIsZero(call.rows[7].Preco)
  /\ call.rows[1].Preco = Lit(1, 2)

AllDashes(t) == \A i \in 1..Len(t) : t[i] = "-"

AllBlanks(t) == \A i \in 1..Len(t) : t[i] = " "

WidthOf(label, cells) == Max({Len(label)} \cup {Len(cells[i]) : i \in 1..Len(cells)})

\* C10: _format_block returns 3 + n lines for n >= 1 rows: the title, the
\* header, a separator of dashes as long as the header, and one line per row
\* in row order; each column is as wide as the widest of its label and its
\* cells, every row line is as long as the header, the label is left-aligned
\* and the multiplier (2 decimals) and the price are right-aligned.
C10_BlockShape ==
  (call.fn = "compute_rows" /\ call.stage = "block") =>
    LET g  == Grupo(call.rows, call.tipo)
        b  == call.block
        cw == WidthOf(HdrCategoria, [i \in 1..Len(g) |-> g[i].Categoria])
        mw == WidthOf(HdrMultiplicador, [i \in 1..Len(g) |-> FormatF2(g[i].Multiplicador)])
        pw == WidthOf(HdrPreco, [i \in 1..Len(g) |-> _fmt_money(g[i].Preco)])
    IN  /\ Len(g) >= 1
        /\ Len(b) = 3 + Len(g)
        /\ b[1] = IF call.tipo = NovoOf(impl) THEN TipoNovo ELSE TipoUsado
        /\ Len(b[2]) = cw + 2 + mw + 2 + pw
        /\ SubSeq(b[2], 1, Len(HdrCategoria)) = HdrCategoria
        /\ SubSeq(b[2], Len(b[2]) - Len(HdrPreco) + 1, Len(b[2])) = HdrPreco
        /\ AllDashes(b[3])
        /\ Len(b[3]) = Len(b[2])
        /\ \A i \in 1..Len(g) :
             LET line == b[3 + i]
                 cat  == g[i].Categoria
                 mult == FormatF2(g[i].Multiplicador)
                 mny  == _fmt_money(g[i].Preco)
             IN  /\ Len(line) = Len(b[2])
                 /\ SubSeq(line, 1, Len(cat)) = cat
                 /\ AllBlanks(SubSeq(line, Len(cat) + 1, cw + 2))
                 /\ Len(mult) = 4
                 /\ AllBlanks(SubSeq(line, cw + 3, cw + 2 + mw - 4))
                 /\ SubSeq(line, cw + 2 + mw - 3, cw + 2 + mw) = mult
                 /\ AllBlanks(SubSeq(line, cw + 2 + mw + 1, Len(line) - Len(mny)))
                 /\ SubSeq(line, Len(line) - Len(mny) + 1, Len(line)) = mny

\* a price column wider than its label, and one narrower, in one block
C10_Witness ==
  /\ call.fn = "compute_rows"
  /\ call.stage = "block"
  /\ call.novo = <<2000000000, 2>>
  /\ call.tipo = NovoOf(impl)
  /\ Len(call.block) = 10
  /\ Len(call.block[4]) = Len(call.block[10])
  /\ Len(_fmt_money(call.rows[1].Preco)) > Len(HdrPreco)
  /\ Len(_fmt_money(call.rows[7].Preco)) = Len(HdrPreco)

(***************************************************************************)
(* Properties of a run of main().                                          *)
(***************************************************************************)
\* the lines _read_input keeps: stripped, blank ones dropped
KeptLines == StrippedLines(file.lines)

\* the price lines of the input alphabet, by what they denote
PositivePriceLines == {LinePriceA, LinePriceB}

NonPositivePriceLines == {LineZero, LineNegative}

Accepted ==
  /\ file.exists
  /\ Len(KeptLines) >= 3
  /\ KeptLines[2] \in PositivePriceLines
  /\ KeptLines[3] \in PositivePriceLines

TableLines == SelectSeq(console, LAMBDA p : p.src = "print_table")

NoTableLine == \A i \in 1..Len(console) : console[i].src = "main"

\* C3: when reading, parsing or validating the input fails (file missing,
\* fewer than 3 non-empty lines, unparsable price, price <= 0) the run prints
\* a message and ends with exit status 1 having printed no table line and
\* written neither file; exit status 0 is reached only for an accepted input.
C3_RejectedInputExitsOneWithoutOutput ==
  /\ ~Accepted =>
       /\ NoTableLine
       /\ ~png.written
       /\ ~txt.written
       /\ exit_code # 0
       /\ pc \in {"start", "read", "exit"}
       /\ pc = "exit" => exit_code = 1 /\ Len(console) = 1
  /\ exit_code = 1 => NoTableLine /\ ~png.written /\ ~txt.written
  /\ exit_code = 0 => Accepted

\* three lines, the used price "0": validation fails and the run ends with 1
C3_Witness ==
  /\ pc = "exit"
  /\ exit_code = 1
  /\ file.exists
  /\ Len(KeptLines) >= 3
  /\ KeptLines[2] \in PositivePriceLines
  /\ KeptLines[3] = LineZero
  /\ Len(console) = 1

ReadDone == pc \notin {"start", "read"} /\ file.exists

TooFewLines == Len(KeptLines) < 3

NonPositivePrice ==
  /\ Len(KeptLines) >= 3
  /\ KeptLines[2] \in PositivePriceLines \cup NonPositivePriceLines
  /\ KeptLines[3] \in PositivePriceLines \cup NonPositivePriceLines
  /\ \/ KeptLines[2] \in NonPositivePriceLines
     \/ KeptLines[3] \in NonPositivePriceLines

C7_ThreeOutputsAgree ==
  (pc = "exit" /\ exit_code = 0) =>
    /\ png.written
    /\ txt.written
    /\ [i \in 1..Len(TableLines) |-> TableLines[i].text] = png.body
    /\ FileLines(txt.body) = png.body

\* C7, of mercado_livre_price_optimizer.py alone: console, .txt and image
\* carry the same 21 lines.
C7_NewScriptOutputsAgree ==
  (pc = "exit" /\ exit_code = 0 /\ impl = "new") =>
    /\ png.written
    /\ txt.written
    /\ [i \in 1..Len(TableLines) |-> TableLines[i].text] = png.body
    /\ FileLines(txt.body) = png.body
    /\ Len(png.body) = 21

(***************************************************************************)
(* Properties of _parse_price.                                             *)
(***************************************************************************)
NoBlanks(t) == SelectSeq(t, LAMBDA c : c # " ")

\* t from its first character that is no blank
FromFirstNonBlank(t) ==
  IF \A i \in 1..Len(t) : t[i] = " " THEN <<>>
  ELSE SubSeq(t, CHOOSE i \in 1..Len(t) :
                   t[i] # " " /\ \A j \in 1..(i - 1) : t[j] = " ", Len(t))

\* the argument without its optional "R$" prefix and without its blanks
Core(t) ==
  IF Len(FromFirstNonBlank(t)) >= 2 /\ SubSeq(FromFirstNonBlank(t), 1, 2) = <<"R", "$">>
    THEN NoBlanks(SubSeq(FromFirstNonBlank(t), 3, Len(FromFirstNonBlank(t))))
  ELSE NoBlanks(t)

Count(t, c) == Cardinality({i \in 1..Len(t) : t[i] = c})

DigitsOf(t) == SelectSeq(t, IsDigit)

\* the digits of t after its only c
DigitsAfter(t, c) ==
  Len(DigitsOf(SubSeq(t, (CHOOSE i \in 1..Len(t) : t[i] = c) + 1, Len(t))))

IsWrittenNumber(t) ==
  /\ \A i \in 1..Len(t) : IsDigit(t[i]) \/ t[i] \in {",", "."}
  /\ DigitsOf(t) # <<>>

\* C5: the separators are told apart by presence: with both "," and "." every
\* "." is a thousands separator and "," the decimal point; with only "," it
\* is the decimal point; with only "." the string is read as it is; so
\* "1.234,56" and "1234.56" are 1234.56 and "10,5" is 10.5 ("R$" prefix
\* and spaces removed first).
C5_SeparatorsByPresence ==
  (call.fn = "_parse_price" /\ call.stage = "done" /\ IsWrittenNumber(Core(call.arg))) =>
    LET u == Core(call.arg)
    IN  /\ (Count(u, ",") = 1 /\ Count(u, ".") >= 1) =>
             /\ call.ret.ok
             /\ call.ret.v = Lit(DigitsVal(DigitsOf(u)), DigitsAfter(u, ","))
        /\ (Count(u, ",") = 1 /\ Count(u, ".") = 0) =>
             /\ call.ret.ok
             /\ call.ret.v = Lit(DigitsVal(DigitsOf(u)), DigitsAfter(u, ","))
        /\ (Count(u, ",") = 0 /\ Count(u, ".") = 1) =>
             /\ call.ret.ok
             /\ call.ret.v = Lit(DigitsVal(DigitsOf(u)), DigitsAfter(u, "."))
        /\ (Count(u, ",") = 0 /\ Count(u, ".") = 0) =>
             /\ call.ret.ok
             /\ call.ret.v = Lit(DigitsVal(u), 0)
        /\ call.arg \in {<<"1", ".", "2", "3", "4", ",", "5", "6">>,
                         <<"1", "2", "3", "4", ".", "5", "6">>} =>
             call.ret.v = Lit(123456, 2)
        /\ call.arg = <<"1", "0", ",", "5">> => call.ret.v = Lit(105, 1)

C5_Witness ==
  /\ call.fn = "_parse_price"
  /\ call.stage = "done"
  /\ call.arg = <<"R", "$", " ", "1", ".", "2", "3", "4", ",", "5", "6">>
  /\ call.ret.ok
  /\ call.ret.v = Lit(123456, 2)

(***************************************************************************)
(* Properties of _fmt_money.                                               *)
(***************************************************************************)
\* "R$ ", "-" when negative, the integer part of c cents with a dot before
\* every group of 3 digits, a comma, two decimals
MoneyText(neg, c) ==
  <<"R", "$", " ">> \o (IF neg THEN <<"-">> ELSE <<>>)
    \o ReplaceChar(GroupThousands(IntStr(c \div 100)), ",", ".")
    \o <<",", DigitChars[((c \div 10) % 10) + 1], DigitChars[(c % 10) + 1]>>

\* C6: for every value v, _fmt_money(v) is "R$ ", a "-" when v < 0, the
\* grouped integer part, a comma and two decimals, and the amount written is
\* |v| rounded to 2 decimals, a fraction that rounds up to 1.00 carrying into
\* the integer part.  (v is n thousandths; any cent within half a cent of |v|
\* counts as |v| rounded.)
C6_WritesTheAmountRounded ==
  (call.fn = "_fmt_money" /\ call.stage = "done") =>
    \E c \in {call.arg.n \div 10, (call.arg.n \div 10) + 1} :
      /\ 10 * c - call.arg.n <= 5
      /\ call.arg.n - 10 * c <= 5
      /\ call.ret = MoneyText(call.arg.s = 1 /\ call.arg.n > 0, c)

\* C6, short of the carry: the same holds of every v whose fraction is below
\* 0.995.
C6_HoldsBelowTheCarry ==
  (call.fn = "_fmt_money" /\ call.stage = "done" /\ call.arg.n % 1000 < 995) =>
    \E c \in {call.arg.n \div 10, (call.arg.n \div 10) + 1} :
      /\ 10 * c - call.arg.n <= 5
      /\ call.arg.n - 10 * c <= 5
      /\ call.ret = MoneyText(call.arg.s = 1 /\ call.arg.n > 0, c)

(***************************************************************************)
(* Properties of _slug_filename and of the file names.                     *)
(***************************************************************************)
SlugDone == call.fn = "_slug_filename" /\ call.stage = "done"

NoUnderscoreRuns(t) ==
  /\ \A i \in 1..(Len(t) - 1) : ~(t[i] = "_" /\ t[i + 1] = "_")
  /\ t # <<>> => t[1] # "_" /\ t[Len(t)] # "_"

FilesNamedBySlug ==
  /\ call.ret.png = <<"p", "r", "e", "c", "o", "_", "o", "t", "i", "m", "i", "z", "a",
        "d", "o", "_">> \o call.ret.slug \o <<".", "p", "n", "g">>
  /\ call.ret.txt = <<"p", "r", "e", "c", "o", "_", "o", "t", "i", "m", "i", "z", "a",
        "d", "o", "_">> \o call.ret.slug \o <<".", "t", "x", "t">>

\* C8 as stated: the slug consists only of ASCII letters, digits and single
\* underscores, without leading or trailing underscore, and both output files
\* are named preco_otimizado_<slug>.
C8_OnlyAlnumAndUnderscore ==
  SlugDone =>
    /\ \A i \in 1..Len(call.ret.slug) : IsAlnum(call.ret.slug[i]) \/ call.ret.slug[i] = "_"
    /\ NoUnderscoreRuns(call.ret.slug)
    /\ FilesNamedBySlug

\* a letter with its diacritic stripped
Unaccented(c) == IF c = "U00E9" THEN "e" ELSE c

\* C8 amended: the slug consists only of ASCII letters, digits, hyphens (a
\* "-" of the name is kept) and single underscores, without leading or
\* trailing underscore, and is never empty; a name of letters and digits only
\* keeps them, diacritics stripped; both output files are named
\* preco_otimizado_<slug> with that slug.
C8_AlnumHyphenAndUnderscore ==
  SlugDone =>
    /\ call.ret.slug # <<>>
    /\ \A i \in 1..Len(call.ret.slug) :
         IsAlnum(call.ret.slug[i]) \/ call.ret.slug[i] \in {"_", "-"}
    /\ NoUnderscoreRuns(call.ret.slug)
    /\ (call.arg # <<>> /\ \A i \in 1..Len(call.arg) : IsAlnum(Unaccented(call.arg[i]))) =>
         call.ret.slug = [i \in 1..Len(call.arg) |-> Unaccented(call.arg[i])]
    /\ FilesNamedBySlug

\* "é / a" becomes "e_a"
C8_Witness ==
  /\ SlugDone
  /\ call.arg = <<"U00E9", "/", "a">>
  /\ call.ret.slug = <<"e", "_", "a">>
  /\ call.ret.txt = <<"p", "r", "e", "c", "o", "_", "o", "t", "i", "m", "i", "z", "a",
        "d", "o", "_">> \o <<"e", "_", "a", ".", "t", "x", "t">>

=============================================================================
